---- MODULE Spec2Model ----
(***************************************************************************)
(* The temperature aggregation and fan-control loop of the NanoCluster     *)
(* server: TemperatureMonitor (src/src/server_temperature_monitor.py) on    *)
(* top of ConfigManager (src/src/server_config_manager.py).                 *)
(*                                                                         *)
(* Threads of the program:                                                  *)
(*   - the controller, which calls start_monitoring / stop_monitoring;      *)
(*   - the background threads created by start_monitoring, each running     *)
(*     _monitor_loop (one slot of `thr` per created thread);                *)
(*   - the request handlers, which call the three read operations.          *)
(* The class takes no lock, so every access to shared state is its own      *)
(* step and the steps of different threads interleave freely.               *)
(***************************************************************************)
EXTENDS Integers, Sequences, FiniteSets, TLC

(***************************************************************************)
(* Bounds of the model.                                                     *)
(***************************************************************************)
\* number of background threads start_monitoring may create in one run
MaxThreads == 2
\* number of samples the monitor threads may record in one run
MaxStores == 2

(***************************************************************************)
(* Program constants.                                                       *)
(***************************************************************************)
\* "Keep only the last 100 entries"
HistoryCap == 100
\* defaults of fan_config.get(...)
DefaultMinTemp == 40
DefaultMaxTemp == 70
DefaultMinSpeed == 30
DefaultMaxSpeed == 100
\* duty_cycle = int(speed * 10000)
DutyScale == 10000
\* default of the limit parameter of get_node_temperature_history
DefaultLimit == 50

\* Python's None where the other values are thread ids or duty cycles
None == 0 - 1

(***************************************************************************)
(* Configuration (ConfigManager.config): the node registry and the fan      *)
(* section.  A dict is a function whose DOMAIN is its set of keys.          *)
(***************************************************************************)
Get(d, key, default) == IF key \in DOMAIN d THEN d[key] ELSE default

EmptyDict == [k \in {} |-> 0]

NodeA == [name |-> "A", slot |-> 1, enabled |-> TRUE]
NodeB == [name |-> "B", slot |-> 2, enabled |-> TRUE]
NodeC == [name |-> "C", slot |-> 3, enabled |-> FALSE]

\* the registries of the model: one enabled node; two enabled nodes around a
\* disabled one
OneNode == <<NodeA>>
ThreeNodes == <<NodeA, NodeC, NodeB>>

NodeNames == {"A", "B", "C"}

FanFull == [gpio_pin |-> 13, min_temp |-> 40, max_temp |-> 70,
            min_speed |-> 30, max_speed |-> 100]
FanPinOnly == [gpio_pin |-> 13]
FanFlat == [gpio_pin |-> 13, min_temp |-> 55, max_temp |-> 55,
            min_speed |-> 30, max_speed |-> 100]

\* the configurations of the model
Configs ==
    { [nodes |-> ThreeNodes, fan |-> FanFull],
      [nodes |-> OneNode, fan |-> EmptyDict],
      [nodes |-> OneNode, fan |-> FanPinOnly],
      [nodes |-> OneNode, fan |-> FanFlat] }

\* temperatures a node may report (degrees Celsius)
Temps == {35, 55}

RECURSIVE SelectEnabled(_)
SelectEnabled(nodes) ==
    IF nodes = << >> THEN << >>
    ELSE IF Head(nodes).enabled
         THEN <<Head(nodes)>> \o SelectEnabled(Tail(nodes))
         ELSE SelectEnabled(Tail(nodes))

VARIABLES
    config,            \* ConfigManager.config: [nodes, fan]
    temperature_data,  \* dict node name -> list of samples
    is_running,        \* the running flag
    monitor_thread,    \* None or the id of the thread created last
    stop_event,        \* _stop_event: TRUE when set
    thr,               \* the background threads: id -> its position and locals
    ctl,               \* where the controller is: "ready" or "joining"
    ret,               \* how the controller's last call returned
    now,               \* the clock datetime.now() reads
    duty,              \* the duty cycle the PWM channel was last given, or None
    lastRead,          \* what the read operation that just ran returned
    recorded,          \* history variable: every sample each node was recorded
    overlap,           \* history variable: nodes on which two records overlapped
    key_order,         \* the keys of temperature_data in insertion order
    rd                 \* the request handler inside get_latest_temperatures

vars == <<config, temperature_data, is_running, monitor_thread, stop_event,
          thr, ctl, ret, now, duty, lastRead, recorded, overlap, key_order, rd>>

ThreadIds == 1..MaxThreads

get_nodes == config.nodes
\* the pass going over every configured node, the disabled ones too
every_node == config.nodes
get_enabled_nodes == SelectEnabled(get_nodes)
get_fan_config == config.fan


(***************************************************************************)
(* What a node's HTTP endpoint can answer to one GET.                       *)
(*   kind: "timeout", "connection_error", "request_exception" (requests.get *)
(*   raised), "http_error" (a non-2xx status), "bad_json" (200, body is not *)
(*   JSON), "not_object" (200, JSON that is not an object, e.g. a list),    *)
(*   "object" (200, a JSON object).                                         *)
(*   For an object: success is its "success" member, temperature its        *)
(*   "temperature" member: absent, null, a number, a text that is no        *)
(*   number, or a list.                                                     *)
(***************************************************************************)
NoField == [type |-> "absent", v |-> 0]

TempFields ==
    { NoField, [type |-> "null", v |-> 0], [type |-> "text", v |-> 0],
      [type |-> "list", v |-> 0] }
    \cup { [type |-> "number", v |-> t] : t \in Temps }

FailureKinds ==
    {"timeout", "connection_error", "request_exception", "http_error",
     "bad_json", "not_object"}

Responses ==
    { [kind |-> k, success |-> FALSE, temperature |-> NoField] : k \in FailureKinds }
    \cup { [kind |-> "object", success |-> s, temperature |-> f] :
              s \in BOOLEAN, f \in TempFields }

NoResp == [kind |-> "none", success |-> FALSE, temperature |-> NoField]

(***************************************************************************)
(* _poll_node_temperature: the outcome of one poll, given the response.     *)
(*   [kind |-> "value", v]  the float returned                              *)
(*   [kind |-> "none"]      None returned                                   *)
(*   [kind |-> "raise"]     an exception left the function                  *)
(***************************************************************************)
Value(v) == [kind |-> "value", v |-> v, exc |-> ""]
Absent == [kind |-> "none", v |-> 0, exc |-> ""]
Raise(e) == [kind |-> "raise", v |-> 0, exc |-> e]

\* the except clauses of lines 98-109: the exception classes they catch
CaughtByPoll ==
    {"Timeout", "ConnectionError", "RequestException", "HTTPError",
     "JSONDecodeError", "ValueError", "KeyError"}

\* the exception the try block (lines 84-96) raises on response r, or "" when
\* it raises none
RaisedInTry(r) ==
    CASE r.kind = "timeout" -> "Timeout"
      [] r.kind = "connection_error" -> "ConnectionError"
      [] r.kind = "request_exception" -> "RequestException"
      [] r.kind = "http_error" -> "HTTPError"
      [] r.kind = "bad_json" -> "JSONDecodeError"
      [] r.kind = "not_object" -> "AttributeError"
      [] r.kind = "object" /\ r.temperature.type = "text" -> "ValueError"
      [] r.kind = "object" /\ r.temperature.type = "list" -> "TypeError"
      [] OTHER -> ""

_poll_node_temperature(r) ==
    LET e == RaisedInTry(r) IN
    IF e # ""
    THEN IF e \in CaughtByPoll THEN Absent ELSE Raise(e)
    ELSE IF r.temperature.type \in {"absent", "null"}
         THEN Absent
         ELSE Value(r.temperature.v)


(***************************************************************************)
(* The history store.  A sample is one entry of a node's list.              *)
(***************************************************************************)
Sample(ts, temperature, slot) ==
    [timestamp |-> ts, temperature |-> temperature, slot |-> slot]

\* list[-n:] for n > 0: the last n elements, the whole list when it is shorter
LastN(list, n) ==
    IF Len(list) <= n THEN list ELSE SubSeq(list, Len(list) - n + 1, Len(list))

\* list[-limit:] as Python evaluates it for any integer limit: -0 is 0, so
\* limit = 0 is list[0:], the whole list; a negative limit k is list[-k:] with
\* -k > 0, the list without its first -k elements
SliceFromMinus(list, limit) ==
    IF limit > 0 THEN LastN(list, limit)
    ELSE IF limit = 0 THEN list
    ELSE IF 0 - limit >= Len(list) THEN << >>
    ELSE SubSeq(list, 1 - limit, Len(list))

\* what lines 172-183 build from the dict when nothing else runs meanwhile:
\* the last entry of every non-empty list
latest_of(data) ==
    [n \in { m \in DOMAIN data : data[m] # << >> } |-> data[n][Len(data[n])]]

(***************************************************************************)
(* _set_fan_speed_based_on_temperature, lines 134-167: what the function    *)
(* does up to the PWM call, as a value:                                     *)
(*   [out |-> "skipped"]        returned at line 137, nothing emitted       *)
(*   [out |-> "raise"]          line 163 divided by zero                    *)
(*   [out |-> "pwm", duty]      line 168 is reached with this duty cycle    *)
(***************************************************************************)
\* the search for the maximum begun above every temperature instead of below
AboveAll == [neg_inf |-> FALSE, v |-> 1000]

\* float("-inf"), line 144
NegInf == [neg_inf |-> TRUE, v |-> 0]
Finite(t) == [neg_inf |-> FALSE, v |-> t]

Less(a, b) ==
    IF a.neg_inf THEN ~b.neg_inf
    ELSE IF b.neg_inf THEN FALSE ELSE a.v < b.v

RECURSIVE MaxOf(_)
MaxOf(S) ==
    IF S = {} THEN NegInf
    ELSE LET x == CHOOSE y \in S : TRUE
             m == MaxOf(S \ {x})
         IN IF Less(m, Finite(x)) THEN Finite(x) ELSE m

\* the loop of lines 146-154 without the comparison of line 153: the
\* temperature of the sample stored last wins
newest_temp(data) ==
    LET latest == { data[n][Len(data[n])] :
                      n \in { m \in DOMAIN data : data[m] # << >> } }
    IN  IF latest = {} THEN NegInf
        ELSE Finite((CHOOSE e \in latest :
                        \A f \in latest : f.timestamp <= e.timestamp).temperature)

\* lines 144-154: the largest latest temperature over the nodes with data
current_max_temp(data) ==
    MaxOf({ data[n][Len(data[n])].temperature :
              n \in { m \in DOMAIN data : data[m] # << >> } })

\* round(n / d) for n >= 0 and d > 0: the quotient rounded to the nearest
\* integer
RoundDiv(n, d) == (2 * n + d) \div (2 * d)

\* int(n / d) for d > 0: the quotient truncated toward zero
TruncDiv(n, d) == IF n >= 0 THEN n \div d ELSE 0 - ((0 - n) \div d)

FanSkipped == [out |-> "skipped", speed |-> 0, duty |-> 0]
FanRaise == [out |-> "raise", speed |-> 0, duty |-> 0]
FanPwm(speed) == [out |-> "pwm", speed |-> speed, duty |-> speed * DutyScale]

\* the curve with the upper clamp taken from the wrong end: above max_temp the
\* speed is min_speed
speed_drops_when_hot(fan_config, T) ==
    LET min_temp == Get(fan_config, "min_temp", DefaultMinTemp)
        max_temp == Get(fan_config, "max_temp", DefaultMaxTemp)
        min_speed == Get(fan_config, "min_speed", DefaultMinSpeed)
        max_speed == Get(fan_config, "max_speed", DefaultMaxSpeed)
    IN  IF Less(T, Finite(min_temp)) THEN FanPwm(min_speed)
        ELSE IF Less(Finite(max_temp), T) THEN FanPwm(min_speed)
        ELSE IF max_temp - min_temp = 0 THEN FanRaise
        ELSE FanPwm(TruncDiv(min_speed * (max_temp - min_temp)
                               + (max_speed - min_speed) * (T.v - min_temp),
                             max_temp - min_temp))

\* lines 156-167 for the temperature T (current_max_temp)
compute_speed(fan_config, T) ==
    LET min_temp == Get(fan_config, "min_temp", DefaultMinTemp)
        max_temp == Get(fan_config, "max_temp", DefaultMaxTemp)
        min_speed == Get(fan_config, "min_speed", DefaultMinSpeed)
        max_speed == Get(fan_config, "max_speed", DefaultMaxSpeed)
    IN  IF Less(T, Finite(min_temp)) THEN FanPwm(min_speed)
        ELSE IF Less(Finite(max_temp), T) THEN FanPwm(max_speed)
        ELSE IF max_temp - min_temp = 0 THEN FanRaise
        ELSE FanPwm(TruncDiv(min_speed * (max_temp - min_temp)
                               + (max_speed - min_speed) * (T.v - min_temp),
                             max_temp - min_temp))

\* line 135: an empty dict is falsy
FanConfigMissing(fan_config) == DOMAIN fan_config = {}

_set_fan_speed_based_on_temperature(fan_config, data) ==
    IF FanConfigMissing(fan_config) THEN FanSkipped
    ELSE compute_speed(fan_config, current_max_temp(data))


(***************************************************************************)
(* The background threads.  pc is the line the thread is at:                *)
(*   "unborn"        not created yet                                        *)
(*   "loop"          line 54, about to evaluate the while condition         *)
(*   "poll"          line 73, inside requests.get for enabled node i        *)
(*   "except"        line 77, the handler of an exception of lines 73-75    *)
(*   "store_check"   line 114-116, _store_temperature_data entered          *)
(*   "store_init"    line 117                                               *)
(*   "store_append"  line 120                                               *)
(*   "store_slice"   line 127 and the right-hand side of line 128           *)
(*   "store_assign"  the assignment of line 128                             *)
(*   "wait"          line 61                                                *)
(*   "fan"           line 62                                                *)
(*   "done"          _monitor_loop returned                                 *)
(*   "crashed"       an exception left _monitor_loop                        *)
(* i, temperature, timestamp and sliced are the thread's locals; exc is the *)
(* exception being handled.  resp, passLog, woke and fanOut are history     *)
(* fields of the current iteration: the response the reading being stored   *)
(* came from, the nodes polled in the pass (with whether a reading was      *)
(* returned and whether it was appended), why the wait ended ("stop": the   *)
(* event was set, "interval": the time ran out), how the fan update ended.  *)
(***************************************************************************)
StorePcs == {"store_check", "store_init", "store_append", "store_slice", "store_assign"}
LivePcs == {"loop", "poll", "except", "wait", "fan"} \cup StorePcs

Unborn ==
    [pc |-> "unborn", i |-> 0, temperature |-> 0, timestamp |-> 0,
     sliced |-> << >>, exc |-> "", resp |-> NoResp, passLog |-> << >>,
     woke |-> "", fanOut |-> "none"]

Spawned == [Unborn EXCEPT !.pc = "loop"]

Alive(t) == thr[t].pc \in LivePcs

\* the node thread t is polling or storing
CurNode(t) == get_enabled_nodes[thr[t].i]

\* op, node, limit: the call; list or dict: what it returned; snapshots is a
\* history field, see Idle
NoRead == [op |-> "none", node |-> "", limit |-> 0, list |-> << >>, dict |-> << >>,
           snapshots |-> {}]

NoData == [n \in {} |-> << >>]

\* the request handler outside get_latest_temperatures.  Inside it, pc is
\* "iterating", used is the size the dict had when the iterator of line 174
\* was created, pos the number of keys the iterator has yielded, latest_data
\* the local of that name; snapshots is a history field: what the call would
\* have returned from each state the store went through since the call began
Idle == [pc |-> "idle", used |-> 0, pos |-> 0, latest_data |-> << >>,
         snapshots |-> {}]

\* the store has changed to data while the handler may be inside its call
Noted(r, data) ==
    IF r.pc = "idle" THEN r
    ELSE [r EXCEPT !.snapshots = @ \cup {latest_of(data)}]

\* the state right after TemperatureMonitor(config_manager), lines 13-24
Constructed(cfg) ==
    /\ config = cfg
    /\ temperature_data = NoData
    /\ is_running = FALSE
    /\ monitor_thread = None
    /\ stop_event = FALSE
    /\ thr = [t \in ThreadIds |-> Unborn]
    /\ ctl = "ready"
    /\ ret = "none"
    /\ now = 0
    /\ duty = None
    /\ lastRead = NoRead
    /\ recorded = [n \in NodeNames |-> << >>]
    /\ overlap = {}
    /\ key_order = << >>
    /\ rd = Idle

Init == \E cfg \in Configs : Constructed(cfg)

(***************************************************************************)
(* start_monitoring, lines 26-36.                                           *)
(***************************************************************************)
start_monitoring ==
    /\ ctl = "ready"
    /\ IF is_running
       THEN /\ ret' = "start_noop"
            /\ UNCHANGED <<is_running, stop_event, monitor_thread, thr>>
       ELSE \E t \in ThreadIds :
              /\ thr[t].pc = "unborn"
              /\ \A u \in ThreadIds : u < t => thr[u].pc # "unborn"
              /\ is_running' = TRUE
              /\ stop_event' = FALSE
              /\ monitor_thread' = t
              /\ thr' = [thr EXCEPT ![t] = Spawned]
              /\ ret' = "started"
    /\ lastRead' = NoRead
    /\ UNCHANGED <<config, temperature_data, ctl, now, duty, recorded, overlap,
                   key_order, rd>>

(***************************************************************************)
(* stop_monitoring, lines 38-47: the call up to the join, then the join     *)
(* returning because the thread ended or because its 5 seconds ran out.     *)
(***************************************************************************)
\* stop_monitoring without the test of line 40
stop_unguarded ==
    /\ ctl = "ready"
    /\ is_running' = FALSE
    /\ stop_event' = TRUE
    /\ IF monitor_thread # None
       THEN ctl' = "joining" /\ UNCHANGED ret
       ELSE ctl' = "ready" /\ ret' = "stopped"
    /\ lastRead' = NoRead
    /\ UNCHANGED <<config, temperature_data, monitor_thread, thr, now, duty,
                   recorded, overlap,
                   key_order, rd>>

stop_monitoring ==
    /\ ctl = "ready"
    /\ IF ~is_running
       THEN /\ ret' = "stop_noop"
            /\ UNCHANGED <<is_running, stop_event, ctl>>
       ELSE /\ is_running' = FALSE
            /\ stop_event' = TRUE
            /\ IF monitor_thread # None
               THEN ctl' = "joining" /\ UNCHANGED ret
               ELSE ctl' = "ready" /\ ret' = "stopped"
    /\ lastRead' = NoRead
    /\ UNCHANGED <<config, temperature_data, monitor_thread, thr, now, duty,
                   recorded, overlap,
                   key_order, rd>>

join_returns ==
    /\ ctl = "joining"
    /\ ~Alive(monitor_thread)
    /\ ctl' = "ready"
    /\ ret' = "stopped"
    /\ lastRead' = NoRead
    /\ UNCHANGED <<config, temperature_data, is_running, monitor_thread,
                   stop_event, thr, now, duty, recorded, overlap,
                   key_order, rd>>

\* join() called without a timeout: it returns only when the thread has ended
join_without_timeout ==
    /\ ctl = "joining"
    /\ FALSE
    /\ UNCHANGED vars

join_times_out ==
    /\ ctl = "joining"
    /\ Alive(monitor_thread)
    /\ ctl' = "ready"
    /\ ret' = "stopped_timeout"
    /\ lastRead' = NoRead
    /\ UNCHANGED <<config, temperature_data, is_running, monitor_thread,
                   stop_event, thr, now, duty, recorded, overlap,
                   key_order, rd>>


(***************************************************************************)
(* _monitor_loop, lines 49-62, and what it calls.                           *)
(***************************************************************************)
ClearLocals(rec) ==
    [rec EXCEPT !.temperature = 0, !.timestamp = 0, !.sliced = << >>,
                !.exc = "", !.resp = NoResp]

\* the for statement of line 71 taking its next node, or the pass ending
NextNode(rec) ==
    IF rec.i < Len(get_enabled_nodes)
    THEN [ClearLocals(rec) EXCEPT !.pc = "poll", !.i = rec.i + 1]
    ELSE [ClearLocals(rec) EXCEPT !.pc = "wait", !.i = 0]

\* a loop without the test of line 54: while True
loop_without_test(t) ==
    /\ thr[t].pc = "loop"
    /\ thr' = [thr EXCEPT ![t] =
                 IF Len(get_enabled_nodes) = 0
                 THEN [@ EXCEPT !.pc = "wait", !.passLog = << >>,
                                !.woke = "", !.fanOut = "none"]
                 ELSE [@ EXCEPT !.pc = "poll", !.i = 1, !.passLog = << >>,
                                !.woke = "", !.fanOut = "none"]]
    /\ lastRead' = NoRead
    /\ UNCHANGED <<config, temperature_data, is_running, monitor_thread,
                   stop_event, ctl, ret, now, duty, recorded, overlap,
                   key_order, rd>>

\* line 54: the while condition; a pass begins or the function returns
loop_test(t) ==
    /\ thr[t].pc = "loop"
    /\ thr' = [thr EXCEPT ![t] =
                 IF is_running /\ ~stop_event
                 THEN IF Len(get_enabled_nodes) = 0
                      THEN [@ EXCEPT !.pc = "wait", !.passLog = << >>,
                                     !.woke = "", !.fanOut = "none"]
                      ELSE [@ EXCEPT !.pc = "poll", !.i = 1, !.passLog = << >>,
                                     !.woke = "", !.fanOut = "none"]
                 ELSE [@ EXCEPT !.pc = "done", !.passLog = << >>, !.woke = ""]]
    /\ lastRead' = NoRead
    /\ UNCHANGED <<config, temperature_data, is_running, monitor_thread,
                   stop_event, ctl, ret, now, duty, recorded, overlap,
                   key_order, rd>>

\* lines 73-75: the GET of node i answers r; _poll_node_temperature turns it
\* into a reading, None or an exception; a reading enters
\* _store_temperature_data, whose line 114 reads the clock; an exception
\* enters the handler of line 76
poll_node(t) ==
    /\ thr[t].pc = "poll"
    /\ \E r \in Responses :
         LET res == _poll_node_temperature(r)
             node == CurNode(t)
             logged == [thr[t] EXCEPT !.passLog =
                          Append(@, [node |-> node.name,
                                     got |-> (res.kind = "value"),
                                     stored |-> FALSE])]
         IN CASE res.kind = "value" ->
                   /\ now < MaxStores
                   /\ now' = now + 1
                   /\ thr' = [thr EXCEPT ![t] =
                                [logged EXCEPT !.pc = "store_check",
                                               !.temperature = res.v,
                                               !.timestamp = now + 1,
                                               !.resp = r]]
                   /\ overlap' =
                        IF \E u \in ThreadIds \ {t} :
                              thr[u].pc \in StorePcs /\ CurNode(u).name = node.name
                        THEN overlap \cup {node.name}
                        ELSE overlap
              [] res.kind = "none" ->
                   /\ thr' = [thr EXCEPT ![t] = NextNode(logged)]
                   /\ UNCHANGED <<now, overlap>>
              [] res.kind = "raise" ->
                   /\ thr' = [thr EXCEPT ![t] =
                                [logged EXCEPT !.pc = "except", !.exc = res.exc]]
                   /\ UNCHANGED <<now, overlap>>
    /\ lastRead' = NoRead
    /\ UNCHANGED <<config, temperature_data, is_running, monitor_thread,
                   stop_event, ctl, ret, duty, recorded,
                   key_order, rd>>

\* the loop body without its try: the exception leaves _poll_all_nodes and is
\* caught at line 57, which ends the pass
except_ends_pass(t) ==
    /\ thr[t].pc = "except"
    /\ thr' = [thr EXCEPT ![t] = [ClearLocals(@) EXCEPT !.pc = "wait", !.i = 0]]
    /\ lastRead' = NoRead
    /\ UNCHANGED <<config, temperature_data, is_running, monitor_thread,
                   stop_event, ctl, ret, now, duty, recorded, overlap,
                   key_order, rd>>

\* lines 76-77: the exception is logged and the for statement goes on
except_in_poll_all(t) ==
    /\ thr[t].pc = "except"
    /\ thr' = [thr EXCEPT ![t] = NextNode(@)]
    /\ lastRead' = NoRead
    /\ UNCHANGED <<config, temperature_data, is_running, monitor_thread,
                   stop_event, ctl, ret, now, duty, recorded, overlap,
                   key_order, rd>>

\* line 116: is the node's name a key of the dict?
store_check(t) ==
    /\ thr[t].pc = "store_check"
    /\ thr' = [thr EXCEPT ![t].pc =
                 IF CurNode(t).name \notin DOMAIN temperature_data
                 THEN "store_init" ELSE "store_append"]
    /\ lastRead' = NoRead
    /\ UNCHANGED <<config, temperature_data, is_running, monitor_thread,
                   stop_event, ctl, ret, now, duty, recorded, overlap,
                   key_order, rd>>

\* line 117 binding a new dict instead of a new key:
\* temperature_data = {node_name: []}
store_init_resets(t) ==
    /\ thr[t].pc = "store_init"
    /\ temperature_data' = [n \in {CurNode(t).name} |-> << >>]
    /\ key_order' = <<CurNode(t).name>>
    /\ rd' = Noted(rd, temperature_data')
    /\ thr' = [thr EXCEPT ![t].pc = "store_append"]
    /\ lastRead' = NoRead
    /\ UNCHANGED <<config, is_running, monitor_thread, stop_event, ctl, ret,
                   now, duty, recorded, overlap>>

\* line 117: temperature_data[node_name] = []
store_init(t) ==
    /\ thr[t].pc = "store_init"
    /\ temperature_data' =
         [n \in DOMAIN temperature_data \cup {CurNode(t).name} |->
            IF n = CurNode(t).name THEN << >> ELSE temperature_data[n]]
    /\ key_order' =
         IF CurNode(t).name \in DOMAIN temperature_data
         THEN key_order ELSE Append(key_order, CurNode(t).name)
    /\ rd' = Noted(rd, temperature_data')
    /\ thr' = [thr EXCEPT ![t].pc = "store_append"]
    /\ lastRead' = NoRead
    /\ UNCHANGED <<config, is_running, monitor_thread, stop_event, ctl, ret,
                   now, duty, recorded, overlap>>

\* lines 120-124: the sample is appended in place
store_append(t) ==
    /\ thr[t].pc = "store_append"
    /\ LET node == CurNode(t)
           sample == Sample(thr[t].timestamp, thr[t].temperature, node.slot)
       IN /\ temperature_data' =
               [temperature_data EXCEPT ![node.name] = Append(@, sample)]
          /\ recorded' = [recorded EXCEPT ![node.name] = Append(@, sample)]
          /\ thr' = [thr EXCEPT ![t].pc = "store_slice",
                                ![t].temperature = 0,
                                ![t].timestamp = 0,
                                ![t].passLog[Len(thr[t].passLog)].stored = TRUE]
    /\ rd' = Noted(rd, temperature_data')
    /\ lastRead' = NoRead
    /\ UNCHANGED <<config, is_running, monitor_thread, stop_event, ctl, ret,
                   now, duty, overlap, key_order>>

\* line 127
over_cap(list) == Len(list) > HistoryCap

\* the slice taken from the wrong end: list[:100]
first_entries(list) == SubSeq(list, 1, HistoryCap)

\* the right-hand side of line 128
last_entries(list) == LastN(list, HistoryCap)

\* line 127 and the slice of line 128: the new list is built, not yet bound
store_slice(t) ==
    /\ thr[t].pc = "store_slice"
    /\ LET list == temperature_data[CurNode(t).name] IN
         thr' = [thr EXCEPT ![t] =
                   IF over_cap(list)
                   THEN [@ EXCEPT !.pc = "store_assign", !.resp = NoResp,
                                  !.sliced = last_entries(list)]
                   ELSE NextNode(@)]
    /\ lastRead' = NoRead
    /\ UNCHANGED <<config, temperature_data, is_running, monitor_thread,
                   stop_event, ctl, ret, now, duty, recorded, overlap,
                   key_order, rd>>

\* the assignment of line 128: the dict entry is bound to the new list
store_assign(t) ==
    /\ thr[t].pc = "store_assign"
    /\ temperature_data' =
         [temperature_data EXCEPT ![CurNode(t).name] = thr[t].sliced]
    /\ thr' = [thr EXCEPT ![t] = NextNode(@)]
    /\ rd' = Noted(rd, temperature_data')
    /\ lastRead' = NoRead
    /\ UNCHANGED <<config, is_running, monitor_thread, stop_event, ctl, ret,
                   now, duty, recorded, overlap, key_order>>

\* a loop that tests the stop signal after its wait and leaves out the fan
\* update when the signal is set
wait_breaks_on_stop(t) ==
    /\ thr[t].pc = "wait"
    /\ thr' = [thr EXCEPT ![t].pc = IF stop_event THEN "loop" ELSE "fan",
                          ![t].woke = IF stop_event THEN "stop" ELSE "interval"]
    /\ lastRead' = NoRead
    /\ UNCHANGED <<config, temperature_data, is_running, monitor_thread,
                   stop_event, ctl, ret, now, duty, recorded, overlap,
                   key_order, rd>>

\* line 61: _stop_event.wait(timeout=interval) returns, because the event is
\* set or because the interval ran out
wait_returns(t) ==
    /\ thr[t].pc = "wait"
    /\ thr' = [thr EXCEPT ![t].pc = "fan",
                          ![t].woke = IF stop_event THEN "stop" ELSE "interval"]
    /\ lastRead' = NoRead
    /\ UNCHANGED <<config, temperature_data, is_running, monitor_thread,
                   stop_event, ctl, ret, now, duty, recorded, overlap,
                   key_order, rd>>

\* line 62: the fan update; line 168 hands the duty cycle to pigpio, which
\* raises pigpio.error when the daemon refuses or cannot be reached.  Line 62
\* is outside every try block: an exception of the update leaves _monitor_loop.
\* The loop of lines 146-154 reads the store in one step: none but another
\* background thread writes to it meanwhile.
fan_update(t) ==
    /\ thr[t].pc = "fan"
    /\ LET f == _set_fan_speed_based_on_temperature(get_fan_config, temperature_data)
       IN CASE f.out = "skipped" ->
                 /\ thr' = [thr EXCEPT ![t].pc = "loop", ![t].fanOut = "skipped"]
                 /\ UNCHANGED duty
            [] f.out = "raise" ->
                 /\ thr' = [thr EXCEPT ![t].pc = "crashed", ![t].fanOut = "raised",
                                       ![t].passLog = << >>, ![t].woke = ""]
                 /\ UNCHANGED duty
            [] f.out = "pwm" ->
                 \E pwm_ok \in BOOLEAN :
                    IF pwm_ok
                    THEN /\ duty' = f.duty
                         /\ thr' = [thr EXCEPT ![t].pc = "loop",
                                               ![t].fanOut = "emitted"]
                    ELSE /\ thr' = [thr EXCEPT ![t].pc = "crashed",
                                               ![t].fanOut = "pwm_failed",
                                               ![t].passLog = << >>,
                                               ![t].woke = ""]
                         /\ UNCHANGED duty
    /\ lastRead' = NoRead
    /\ UNCHANGED <<config, temperature_data, is_running, monitor_thread,
                   stop_event, ctl, ret, now, recorded, overlap,
                   key_order, rd>>

(***************************************************************************)
(* The read operations, lines 170-194, called by the request handlers.      *)
(***************************************************************************)
\* the limits a caller passes to get_node_temperature_history
Limits == {0, 1, DefaultLimit}

\* the names a caller asks for: the configured nodes and an unknown one
AskedNames == {"A", "X"}

history_of(data, node_name, limit) ==
    IF node_name \notin DOMAIN data THEN << >>
    ELSE SliceFromMinus(data[node_name], limit)

\* lines 172-174: get_latest_temperatures is entered, latest_data is empty and
\* the iterator over temperature_data.items() is created; it remembers the
\* size of the dict
get_latest_temperatures ==
    /\ rd.pc = "idle"
    /\ rd' = [pc |-> "iterating", used |-> Len(key_order), pos |-> 0,
              latest_data |-> << >>,
              snapshots |-> {latest_of(temperature_data)}]
    /\ lastRead' = NoRead
    /\ UNCHANGED <<config, temperature_data, is_running, monitor_thread,
                   stop_event, thr, ctl, ret, now, duty, recorded, overlap,
                   key_order>>

\* latest_data with the entry of lines 177-181 for node_name
with_entry(latest_data, node_name, latest_entry) ==
    [n \in DOMAIN latest_data \cup {node_name} |->
        IF n = node_name THEN latest_entry ELSE latest_data[n]]

\* line 174, the for statement asking its iterator for the next item: the
\* iterator raises RuntimeError ("dictionary changed size during iteration")
\* when the dict has another size than at its creation; otherwise it ends the
\* loop, and line 183 returns latest_data, or it yields the next key with the
\* list bound to it, and lines 175-181 run on that list
latest_iterate ==
    /\ rd.pc = "iterating"
    /\ IF Len(key_order) # rd.used
       THEN /\ rd' = Idle
            /\ lastRead' = [NoRead EXCEPT !.op = "latest_raised"]
       ELSE IF rd.pos >= Len(key_order)
       THEN /\ rd' = Idle
            /\ lastRead' = [NoRead EXCEPT !.op = "latest", !.dict = rd.latest_data,
                                          !.snapshots = rd.snapshots]
       ELSE LET node_name == key_order[rd.pos + 1]
                data_list == temperature_data[node_name]
            IN /\ rd' = [rd EXCEPT !.pos = @ + 1,
                                   !.latest_data =
                                       IF data_list # << >>
                                       THEN with_entry(@, node_name,
                                                       data_list[Len(data_list)])
                                       ELSE @]
               /\ lastRead' = NoRead
    /\ UNCHANGED <<config, temperature_data, is_running, monitor_thread,
                   stop_event, thr, ctl, ret, now, duty, recorded, overlap,
                   key_order>>

get_node_temperature_history ==
    /\ rd.pc = "idle"
    /\ \E node_name \in AskedNames, limit \in Limits :
         lastRead' = [NoRead EXCEPT !.op = "history", !.node = node_name,
                                    !.limit = limit,
                                    !.list = history_of(temperature_data, node_name, limit)]
    /\ UNCHANGED <<config, temperature_data, is_running, monitor_thread,
                   stop_event, thr, ctl, ret, now, duty, recorded, overlap,
                   key_order, rd>>

get_all_temperature_data ==
    /\ rd.pc = "idle"
    /\ lastRead' = [NoRead EXCEPT !.op = "all", !.dict = temperature_data]
    /\ UNCHANGED <<config, temperature_data, is_running, monitor_thread,
                   stop_event, thr, ctl, ret, now, duty, recorded, overlap,
                   key_order, rd>>

\* the steps of the controller and of the background threads; each of them
\* ends the observation of the read that ran before it (lastRead)
MonitorNext ==
    \/ start_monitoring
    \/ stop_monitoring
    \/ join_returns
    \/ join_times_out
    \/ \E t \in ThreadIds : loop_test(t)
    \/ \E t \in ThreadIds : poll_node(t)
    \/ \E t \in ThreadIds : except_in_poll_all(t)
    \/ \E t \in ThreadIds : store_check(t)
    \/ \E t \in ThreadIds : store_init(t)
    \/ \E t \in ThreadIds : store_append(t)
    \/ \E t \in ThreadIds : store_slice(t)
    \/ \E t \in ThreadIds : store_assign(t)
    \/ \E t \in ThreadIds : wait_returns(t)
    \/ \E t \in ThreadIds : fan_update(t)

Next ==
    \/ MonitorNext
    \/ get_latest_temperatures
    \/ latest_iterate
    \/ get_node_temperature_history
    \/ get_all_temperature_data

\* a node's list after k cycles that each recorded temperature T for it, the
\* last of them at time 0
Filled(node, k, T) == [j \in 1..k |-> Sample(j - k, T, node.slot)]

\* The monitor after k cycles in which node A answered 35 degrees every time
\* and no other node ever answered, followed by a stop_monitoring and a
\* start_monitoring: `first` is where that left the first thread, the second
\* thread is new.
AfterCycles(nodes, k, first) ==
    LET filled == Filled(NodeA, k, 35) IN
    /\ config = [nodes |-> nodes, fan |-> FanFull]
    /\ temperature_data = [n \in {"A"} |-> filled]
    /\ is_running = TRUE
    /\ monitor_thread = 2
    /\ stop_event = FALSE
    /\ thr = [t \in ThreadIds |->
                IF t = 1 THEN first ELSE IF t = 2 THEN Spawned ELSE Unborn]
    /\ ctl = "ready"
    /\ ret = "started"
    /\ now = 0
    /\ duty = _set_fan_speed_based_on_temperature(FanFull, [n \in {"A"} |-> filled]).duty
    /\ lastRead = NoRead
    /\ recorded = [n \in NodeNames |-> IF n = "A" THEN filled ELSE << >>]
    /\ overlap = {}
    /\ key_order = <<"A">>
    /\ rd = Idle

\* the first thread after a stop_monitoring whose join returned
Joined == [Unborn EXCEPT !.pc = "done", !.fanOut = "emitted"]

\* the first thread after a stop_monitoring whose join timed out while the
\* thread was inside the GET of the first node
Abandoned == [Unborn EXCEPT !.pc = "poll", !.i = 1]

\* one entry below the cap, the first thread gone
InitNearCap == AfterCycles(ThreeNodes, HistoryCap - 1, Joined)

\* at the cap, the first thread still alive beside the second
InitAtCap == AfterCycles(OneNode, HistoryCap, Abandoned)

\* the whole program from the store one entry below its cap
SpecNearCap == InitNearCap /\ [][Next]_vars

\* the whole program on its smallest configuration, new or near the cap
InitOneNode == Constructed([nodes |-> OneNode, fan |-> FanFull])

InitProgram == InitOneNode \/ InitNearCap

Spec == InitProgram /\ [][Next]_vars

\* the monitor without the request handlers, on every configuration, new or
\* near the cap
InitMonitor == Init \/ InitNearCap

SpecMonitor == InitMonitor /\ [][MonitorNext]_vars

\* the monitor around the cap of the store, with one writer and with two
InitStore == InitNearCap \/ InitAtCap

SpecStore == InitStore /\ [][MonitorNext]_vars

\* a step of background thread t
ThreadStep(t) ==
    \/ loop_test(t)
    \/ poll_node(t)
    \/ except_in_poll_all(t)
    \/ store_check(t)
    \/ store_init(t)
    \/ store_append(t)
    \/ store_slice(t)
    \/ store_assign(t)
    \/ wait_returns(t)
    \/ fan_update(t)

\* Every background thread keeps running: the interpreter schedules every
\* thread that can run, every requests.get returns or raises within its
\* timeout, and every wait of line 61 ends with the event or the interval.
ThreadsRun == \A t \in ThreadIds : WF_vars(ThreadStep(t))

SpecLive == InitStore /\ [][MonitorNext]_vars /\ ThreadsRun

\* fan sections with min_temp < max_temp and min_speed <= max_speed: a steep
\* curve whose interpolation leaves fractions, and a constant speed
FanSteep == [gpio_pin |-> 13, min_temp |-> 40, max_temp |-> 43,
             min_speed |-> 0, max_speed |-> 100]
FanConst == [gpio_pin |-> 13, min_temp |-> 40, max_temp |-> 70,
             min_speed |-> 50, max_speed |-> 50]

FanConfigs == {FanFull, FanSteep, FanConst, FanPinOnly}

\* temperatures below, at, between and above the bounds of those sections
FanTemps == (38..45) \cup {55, 69, 70, 71, 72}

\* The monitor at the end of the wait of its first iteration, in which node A
\* answered T, or did not answer (T = None), while stop_monitoring is waiting
\* in its join.
AfterFirstPass(fan, T) ==
    LET sample == Sample(1, T, NodeA.slot)
        got == T # None
    IN
    /\ config = [nodes |-> OneNode, fan |-> fan]
    /\ temperature_data = IF got THEN [n \in {"A"} |-> <<sample>>] ELSE NoData
    /\ is_running = FALSE
    /\ monitor_thread = 1
    /\ stop_event = TRUE
    /\ thr = [t \in ThreadIds |->
                IF t = 1
                THEN [Unborn EXCEPT !.pc = "wait",
                                    !.passLog = <<[node |-> "A", got |-> got,
                                                   stored |-> got]>>]
                ELSE Unborn]
    /\ ctl = "joining"
    /\ ret = "started"
    /\ now = IF got THEN 1 ELSE 0
    /\ duty = None
    /\ lastRead = NoRead
    /\ recorded = [n \in NodeNames |-> IF n = "A" /\ got THEN <<sample>> ELSE << >>]
    /\ overlap = {}
    /\ key_order = IF got THEN <<"A">> ELSE << >>
    /\ rd = Idle

InitFan == \E fan \in FanConfigs, T \in FanTemps \cup {None} : AfterFirstPass(fan, T)

\* the rest of the iteration and of the stop: the wait ends, the fan is
\* updated, the loop ends, the join returns
FanNext ==
    \/ join_returns
    \/ join_times_out
    \/ \E t \in ThreadIds : loop_test(t)
    \/ \E t \in ThreadIds : wait_returns(t)
    \/ \E t \in ThreadIds : fan_update(t)

SpecFan == InitFan /\ [][FanNext]_vars


(***************************************************************************)
(* The claims.                                                              *)
(***************************************************************************)
InRecord(t, n) == thr[t].pc \in StorePcs /\ CurNode(t).name = n

\* no thread is inside _store_temperature_data for node n
Quiet(n) == \A t \in ThreadIds : ~InRecord(t, n)

\* C1: whenever no record call for a node is in progress, and the record calls
\* for that node so far ran one after the other, the node's list holds at most
\* 100 entries and is exactly the most recent min(n, 100) of the n samples
\* recorded for the node, in the order they were recorded.
C1_BoundedFifo ==
    \A n \in DOMAIN temperature_data :
        (Quiet(n) /\ n \notin overlap) =>
            /\ Len(temperature_data[n]) <= HistoryCap
            /\ temperature_data[n] = LastN(recorded[n], HistoryCap)

\* C1 witness: more than 100 samples were recorded for a node, one after the
\* other, and its oldest entries have been dropped
C1_Witness ==
    \E n \in DOMAIN temperature_data :
        /\ Quiet(n) /\ n \notin overlap
        /\ Len(recorded[n]) > HistoryCap
        /\ Len(temperature_data[n]) = HistoryCap
        /\ temperature_data[n][1] # recorded[n][1]

\* C2: no exception ever leaves _monitor_loop: no background thread ends by an
\* error of one of its iterations.
C2_NoErrorEndsTheLoop == \A t \in ThreadIds : thr[t].pc # "crashed"

\* C3: no read operation ever returns a node's list with more than 100
\* entries.
C3_ReadersNeverSeeOverCap ==
    /\ Len(lastRead.list) <= HistoryCap
    /\ \A n \in DOMAIN lastRead.dict :
          lastRead.op = "all" => Len(lastRead.dict[n]) <= HistoryCap

\* C4: at most one background thread is executing the monitor loop at any
\* time.
C4_SingleWriter == Cardinality({ t \in ThreadIds : Alive(t) }) <= 1

\* C5: a stop_monitoring call made while the monitor is Stopped leaves the
\* running flag, the stop signal, the thread handle and the history unchanged
\* and returns at once.
C5_StopIdempotent ==
    [][(~is_running /\ stop_monitoring) =>
          /\ UNCHANGED <<is_running, stop_event, monitor_thread, temperature_data, thr>>
          /\ ctl' = "ready"]_vars

\* C5 witness: stop_monitoring has returned as a no-op after an earlier stop
C5_Witness == ret = "stop_noop" /\ stop_event /\ monitor_thread # None

\* C6: a stop_monitoring call made while Running has cleared the running flag
\* before it waits, can always return from its wait whatever the background
\* thread is doing, and has returned with the monitor Stopped.
C6_StopReturnsStopped ==
    /\ ctl = "joining" => (~is_running /\ ENABLED (join_returns \/ join_times_out))
    /\ ret \in {"stopped", "stopped_timeout"} => ~is_running

\* C6 witness: stop_monitoring has returned while the thread it waited for is
\* still inside a network call
C6_Witness ==
    /\ ctl = "ready" /\ ret = "stopped_timeout" /\ ~is_running
    /\ thr[monitor_thread].pc = "poll"

PassNodes(log) == [j \in 1..Len(log) |-> log[j].node]
EnabledNames == [j \in 1..Len(get_enabled_nodes) |-> get_enabled_nodes[j].name]

\* C7: when a polling pass has ended, every enabled node was polled in it,
\* whatever the polls of the other nodes did, and every reading a poll
\* returned was appended to that node's list.
C7_PassSurvivesFailures ==
    \A t \in ThreadIds :
        thr[t].pc = "wait" =>
            /\ PassNodes(thr[t].passLog) = EnabledNames
            /\ \A j \in 1..Len(thr[t].passLog) :
                  thr[t].passLog[j].got => thr[t].passLog[j].stored

\* C7 witness: a pass has ended in which the poll of the first node failed and
\* the reading of a later node was stored
C7_Witness ==
    \E t \in ThreadIds :
        /\ thr[t].pc = "wait"
        /\ Len(thr[t].passLog) = 2
        /\ ~thr[t].passLog[1].got
        /\ thr[t].passLog[2].stored
        /\ temperature_data["B"] # << >>

\* C8: no exception ever leaves _poll_node_temperature: the handler of line 76
\* is never entered.
C8_PollNeverRaises == \A t \in ThreadIds : thr[t].pc # "except"

\* a response the wire contract calls a failed reading: not a 200 JSON object,
\* or success false, or no temperature member
FailedReading(r) ==
    \/ r.kind # "object"
    \/ ~r.success
    \/ r.temperature.type = "absent"

\* C9: no sample is appended from a response that is non-200, or carries
\* success false, or lacks the temperature member.
C9_FailedReadingNotRecorded ==
    \A t \in ThreadIds : thr[t].pc = "store_slice" => ~FailedReading(thr[t].resp)

FanKeys == {"gpio_pin", "min_temp", "max_temp", "min_speed", "max_speed"}

\* a fan section that is absent, lacks a key, or has bounds out of order
InvalidFanConfig(f) ==
    \/ ~(FanKeys \subseteq DOMAIN f)
    \/ ~(f["min_temp"] < f["max_temp"])
    \/ ~(f["min_speed"] <= f["max_speed"])

\* C10: with a missing or invalid fan configuration no fan update emits a
\* duty and none raises an exception of its computation.
C10_InvalidFanConfigSkips ==
    \A t \in ThreadIds :
        InvalidFanConfig(get_fan_config) => thr[t].fanOut \notin {"emitted", "raised"}

\* the bounds and speeds the fan update works with: the keys of the fan
\* section, the defaults where a key is missing
MinTemp == Get(get_fan_config, "min_temp", DefaultMinTemp)
MaxTemp == Get(get_fan_config, "max_temp", DefaultMaxTemp)
MinSpeed == Get(get_fan_config, "min_speed", DefaultMinSpeed)
MaxSpeed == Get(get_fan_config, "max_speed", DefaultMaxSpeed)

OrderedFan == MinTemp < MaxTemp /\ 0 <= MinSpeed /\ MinSpeed <= MaxSpeed

\* the latest temperatures in the store
LatestTemps ==
    { temperature_data[n][Len(temperature_data[n])].temperature :
        n \in { m \in DOMAIN temperature_data : temperature_data[m] # << >> } }

\* T is the hottest of them
Hottest(T) == T \in LatestTemps /\ \A U \in LatestTemps : U <= T

\* speed is what the curve gives for T: the clamps outside the bounds, between
\* them the integer part of min_speed + (max_speed - min_speed) * (T - min_temp)
\* / (max_temp - min_temp), a quotient that is not negative
OnCurve(T, speed) ==
    LET range == MaxTemp - MinTemp
        scaled == MinSpeed * range + (MaxSpeed - MinSpeed) * (T - MinTemp)
    IN  /\ T < MinTemp => speed = MinSpeed
        /\ T > MaxTemp => speed = MaxSpeed
        /\ (MinTemp <= T /\ T <= MaxTemp) =>
               speed * range <= scaled /\ scaled < (speed + 1) * range
        /\ T = MinTemp => speed = MinSpeed
        /\ T = MaxTemp => speed = MaxSpeed

\* a fan update has emitted, and the store is as the update found it
Emitted == \E t \in ThreadIds : thr[t].fanOut = "emitted"

Min(a, b) == IF a <= b THEN a ELSE b

\* the last k entries of list, for 0 <= k <= Len(list)
Suffix(list, k) == [j \in 1..k |-> list[Len(list) - k + j]]

\* C13: get_node_temperature_history(node, limit) returns, for every limit >=
\* 0, the last min(limit, n) of the node's n entries in their order (none for
\* limit = 0), and an empty list for a node without history.
C13_HistoryIsLastLimit ==
    lastRead.op = "history" =>
        lastRead.list =
            IF lastRead.node \in DOMAIN temperature_data
            THEN Suffix(temperature_data[lastRead.node],
                        Min(lastRead.limit, Len(temperature_data[lastRead.node])))
            ELSE << >>

\* no record call has appended anything yet
NeverReported == \A n \in NodeNames : recorded[n] = << >>

\* C14: while no node has ever reported a temperature, the duty a fan update
\* emits is min_speed * 10000.
C14_EmptyStoreGivesMinSpeed ==
    (Emitted /\ NeverReported) => duty = MinSpeed * DutyScale

\* C14 witness: a fan update has emitted the lowest duty of a section whose
\* speeds differ, after a pass in which the node did not answer
C14_Witness ==
    /\ NeverReported /\ MinSpeed < MaxSpeed
    /\ duty = MinSpeed * DutyScale
    /\ \E t \in ThreadIds :
          /\ thr[t].fanOut = "emitted"
          /\ thr[t].passLog # << >>
          /\ \A j \in 1..Len(thr[t].passLog) : ~thr[t].passLog[j].got

\* C15: every get_latest_temperatures call returns a dict that has an entry
\* for a node exactly when the node has a stored sample, the entry being the
\* node's most recent sample: what the store held at some moment of the call.
C15_LatestMatchesStore ==
    lastRead.op \in {"latest", "latest_raised"} =>
        /\ lastRead.op = "latest"
        /\ lastRead.dict \in lastRead.snapshots

\* C16: the duty a fan update emits is the duty of the hottest of the latest
\* stored samples of all nodes, whether or not a node was polled with success
\* in the pass before the update.
C16_FanUsesHottestLatest ==
    [][\A t \in ThreadIds :
          (thr[t].pc = "fan" /\ thr'[t].pc = "loop" /\ thr'[t].fanOut = "emitted") =>
              \A T \in Temps :
                  Hottest(T) => duty' = compute_speed(get_fan_config, Finite(T)).duty]_vars

\* C16 witness: a fan update has emitted the duty of node A's 55 degrees after
\* a pass in which A did not answer and B answered 35 degrees
C16_Witness ==
    \E t \in ThreadIds :
        /\ thr[t].pc = "loop" /\ thr[t].fanOut = "emitted"
        /\ \A u \in ThreadIds \ {t} : thr[u].pc = "unborn"
        /\ Len(thr[t].passLog) = 2
        /\ thr[t].passLog[1].node = "A" /\ ~thr[t].passLog[1].got
        /\ thr[t].passLog[2].node = "B" /\ thr[t].passLog[2].stored
        /\ {"A", "B"} \subseteq DOMAIN latest_of(temperature_data)
        /\ latest_of(temperature_data)["A"].temperature = 55
        /\ latest_of(temperature_data)["B"].temperature = 35
        /\ get_fan_config = FanFull
        /\ duty = 65 * DutyScale

\* the places of a polling pass from which the pass can end
PassPcs == {"loop", "poll", "except", "store_slice", "store_assign"}

\* C17: in every iteration of every background thread the wait begins when
\* the polling pass ends, the fan update begins when the wait ends, whether
\* the wait ended by the stop signal or by the interval, one fan update is
\* made and the next iteration follows it; the duty changes in a fan update
\* only, so never before the first wait has ended.
C17_PassThenWaitThenFan ==
    [][/\ \A t \in ThreadIds :
            /\ (thr[t].pc # "wait" /\ thr'[t].pc = "wait") => thr[t].pc \in PassPcs
            /\ (thr[t].pc = "wait" /\ thr'[t].pc # "wait") => thr'[t].pc = "fan"
            /\ (thr[t].pc # "fan" /\ thr'[t].pc = "fan") => thr[t].pc = "wait"
            /\ (thr[t].pc = "fan" /\ thr'[t].pc # "fan") =>
                   /\ thr'[t].pc \in {"loop", "crashed"}
                   /\ thr'[t].fanOut # "none"
            /\ thr'[t].fanOut # thr[t].fanOut =>
                   \/ thr[t].pc = "fan"
                   \/ thr'[t].fanOut = "none"
       /\ duty' # duty => \E t \in ThreadIds : thr[t].pc = "fan"]_vars

\* C17 witness: a fan update has emitted after a wait that the stop signal
\* ended
C17_Witness ==
    \E t \in ThreadIds :
        /\ thr[t].woke = "stop" /\ thr[t].fanOut = "emitted"
        /\ ~is_running /\ stop_event

\* C18: once stop_monitoring has set the stop signal, and as long as no
\* start_monitoring clears it, every background thread eventually has left
\* its loop, and no thread begins a polling pass while the signal is set.
C18_StopEndsTheThread ==
    /\ stop_event ~> ((\A t \in ThreadIds : ~Alive(t)) \/ ~stop_event)
    /\ [][\A t \in ThreadIds :
             (thr[t].pc = "loop" /\ thr'[t].pc \in {"poll", "wait"}) =>
                 (is_running /\ ~stop_event)]_vars

\* C18 witness: after a stop_monitoring the thread has made its last fan
\* update and returned from its loop, and the join has returned with it
C18_Witness ==
    /\ stop_event /\ ~is_running /\ ret = "stopped"
    /\ thr[monitor_thread].pc = "done"
    /\ thr[monitor_thread].fanOut = "emitted"
    /\ \A t \in ThreadIds : ~Alive(t)

IsEnabled(node) == node.enabled

\* the names of the configured nodes whose enabled flag is true, in the order
\* of the configuration
ToPoll ==
    LET enabled == SelectSeq(config.nodes, IsEnabled)
    IN  [j \in 1..Len(enabled) |-> enabled[j].name]

\* C19: the nodes a thread has polled in its current pass are the first of
\* the enabled nodes in configuration order, each polled once, all of them
\* when the pass has ended; a node whose enabled flag is false is never among
\* them and has no history entry.
C19_EachEnabledNodeOnce ==
    /\ \A t \in ThreadIds :
          LET polled == PassNodes(thr[t].passLog) IN
          /\ Len(polled) <= Len(ToPoll)
          /\ polled = SubSeq(ToPoll, 1, Len(polled))
          /\ thr[t].pc = "poll" => Len(polled) = thr[t].i - 1
          /\ thr[t].pc \in {"wait", "fan"} => polled = ToPoll
    /\ \A j \in 1..Len(config.nodes) :
          ~config.nodes[j].enabled =>
              /\ config.nodes[j].name \notin DOMAIN temperature_data
              /\ recorded[config.nodes[j].name] = << >>

\* C19 witness: a pass over a registry with a disabled node between two
\* enabled ones has ended; both polls failed and were not repeated
C19_Witness ==
    \E t \in ThreadIds :
        /\ thr[t].pc = "wait"
        /\ get_nodes = ThreeNodes
        /\ PassNodes(thr[t].passLog) = <<"A", "B">>
        /\ ~thr[t].passLog[1].got /\ ~thr[t].passLog[2].got

\* C20: whenever the running flag is set, a background thread is alive and
\* executing the monitor loop.
C20_RunningHasThread == is_running => \E t \in ThreadIds : Alive(t)

\* list without its last entry
Front(list) == SubSeq(list, 1, Len(list) - 1)

\* kept is a run of consecutive entries of before
RunOf(before, kept) ==
    \E k \in 0..(Len(before) - Len(kept)) :
        kept = SubSeq(before, k + 1, k + Len(kept))

\* the entries of before that after retains are a run of before and stand in
\* after in the order they had: after is that run between x entries and y
\* entries that before does not hold
KeptInOrder(before, after) ==
    \E x \in 0..Len(after) : \E y \in 0..(Len(after) - x) :
        /\ RunOf(before, SubSeq(after, x + 1, Len(after) - y))
        /\ \A j \in (1..x) \cup ((Len(after) - y + 1)..Len(after)) :
              \A k \in 1..Len(before) : before[k] # after[j]

\* after is before with one sample appended at its end, or before without
\* its oldest entries
AppendedOrCapped(before, after) ==
    \/ after # << >> /\ Front(after) = before
    \/ after # << >> /\ after = LastN(before, Len(after))

\* the step is one of thread t inside _store_temperature_data, and of nothing
\* else: no call of the controller returns or proceeds, no duty is emitted,
\* no read returns or advances
RecordStep(t) ==
    /\ thr[t].pc \in StorePcs /\ thr'[t] # thr[t]
    /\ \A u \in ThreadIds \ {t} : thr'[u] = thr[u]
    /\ UNCHANGED <<is_running, stop_event, monitor_thread, ctl, ret, duty>>
    /\ lastRead' = NoRead
    /\ rd'.pc = rd.pc /\ rd'.pos = rd.pos /\ rd'.latest_data = rd.latest_data

\* C21: the store changes only in a step of a record call, which leaves the
\* list of every node but its own as it was and keeps the entries of its own
\* node that it retains in their order; when the record calls for the node
\* ran one after the other, the step appends one sample at the end or drops
\* the oldest entries, nothing else.  The read operations, the fan update,
\* start_monitoring and stop_monitoring leave the store unchanged.
C21_OnlyRecordChangesItsNode ==
    [][temperature_data' # temperature_data =>
          \E t \in ThreadIds :
              LET n == CurNode(t).name IN
              /\ RecordStep(t)
              /\ DOMAIN temperature_data' = DOMAIN temperature_data \cup {n}
              /\ \A m \in DOMAIN temperature_data \ {n} :
                    temperature_data'[m] = temperature_data[m]
              /\ n \in DOMAIN temperature_data =>
                    /\ KeptInOrder(temperature_data[n], temperature_data'[n])
                    /\ n \notin overlap =>
                          AppendedOrCapped(temperature_data[n], temperature_data'[n])
              /\ n \notin DOMAIN temperature_data => temperature_data'[n] = << >>]_vars

\* C21 witness: B's first sample has been recorded beside the 99 samples of
\* A, which are as they were, and a read of the whole store has returned
C21_Witness ==
    /\ lastRead.op = "all"
    /\ {"A", "B"} \subseteq DOMAIN temperature_data
    /\ temperature_data["B"] # << >>
    /\ temperature_data["A"] = Filled(NodeA, HistoryCap - 1, 35)
    /\ \E t \in ThreadIds : thr[t].fanOut = "emitted"

====
